---- MODULE Spec2Model ----
(***************************************************************************)
(* Session / auth-error coordination of the gasless-wallet front end.      *)
(*                                                                         *)
(* The model covers lib/queryClient.js (apiRequest, handleAuthError,       *)
(* resetAuthErrorHandling, the default query function), the AuthProvider   *)
(* of contexts/auth-context.jsx, the useZeroDev hook, and the parts of     *)
(* pages/home.jsx, components/login-section.jsx and                        *)
(* components/dashboard-section.jsx that decide when a handler can run.    *)
(*                                                                         *)
(* One step of the model is one macrotask of the browser's event loop: a   *)
(* call of a handler up to its first await of a network response, the      *)
(* continuation of a handler after a response, a timer callback, or a      *)
(* React effect.  State updates made inside one such step are committed    *)
(* together.                                                               *)
(***************************************************************************)
EXTENDS Naturals, FiniteSets, Bags, TLC

\* ------------------------------------------------------------------ bounds
\* Network requests that handlers started by the environment may keep in
\* flight at the same time.
MaxInflight == 2
\* Redirect timers of handleAuthError that may be pending at the same time.
MaxTimers == 2
\* 50 ms timers of updateUserWallet that may be pending at the same time.
MaxClearTimers == 1
\* Callers of initializeGoogleIdentity that may await the cached promise
\* besides the one that created it.
MaxCallers == 3
\* Initializations of Google Identity Services that may be started.
MaxAttempts == 3

\* ------------------------------------------------------------------ values
GoogleIds == {"g1"}
WalletAddresses == {"w1"}
Users == [googleId : GoogleIds, walletAddress : WalletAddresses \cup {"none"}]
\* null / undefined user
NoUser == [googleId |-> "none", walletAddress |-> "none"]
\* null smartAccount
NoAccount == [address |-> "none", owner |-> "none"]

GoogleKeys == {"google_id_token", "google_access_token", "google_user_info"}
StorageKeys == GoogleKeys \cup {"user"}
QueryKeys == {"default"}
Paths == {"/", "/login"}

\* HTTP statuses the server answers with (500 stands for every status that
\* no handler tells apart from it); 0 is a network / CORS failure.
ErrorStatuses == {401, 403, 500}
\* A response: its status, the user its JSON body carries (NoUser when it
\* carries none), and whether an error body has a message / error field.
Responses ==
  [status : {200}, data : Users \cup {NoUser}, hasMsg : {FALSE}]
    \cup [status : ErrorStatuses, data : {NoUser}, hasMsg : BOOLEAN]
    \cup [status : {0}, data : {NoUser}, hasMsg : {FALSE}]

\* What each handler waits on.
RequestKinds ==
  {"mount", "validateSession", "login", "updateUserWallet", "refreshUser",
   "logout", "query"}

VARIABLES
  \* lib/queryClient.js
  isHandlingAuthError,    \* module-scoped flag
  queryCache,             \* keys held by the React Query cache
  \* browser
  localStorage,           \* keys present in localStorage
  pathname,               \* window.location.pathname
  redirectTimers,         \* pending setTimeout callbacks of handleAuthError
  clearTimers,            \* pending setTimeout callbacks of updateUserWallet
  inflight,               \* bag of requests sent by apiRequest, not answered
  \* contexts/auth-context.jsx
  user,
  isLoading,
  ctxIsHandlingAuthError, \* the isHandlingAuthError state of AuthProvider
  sessionValidated,
  authErrorHandledRef,
  value,                  \* the value AuthProvider last rendered
  \* hooks/use-zerodev.js
  smartAccount,
  isConnecting,
  authErrorHandled,
  authErrorRef,
  \* observation: the step taken last
  last,
  \* lib/google-auth.js: the googleAuth singleton, with the script element
  \* and window.google it depends on
  googleAuth

qcVars == <<isHandlingAuthError, queryCache>>
browserVars == <<localStorage, pathname, redirectTimers, clearTimers>>
ctxVars ==
  <<user, isLoading, ctxIsHandlingAuthError, sessionValidated,
    authErrorHandledRef, value>>
hookVars == <<smartAccount, isConnecting, authErrorHandled, authErrorRef>>
appVars == <<qcVars, browserVars, inflight, ctxVars, hookVars, last>>
vars == <<appVars, googleAuth>>

\* ------------------------------------------------------------- apiRequest
Request(kind, cap) == [kind |-> kind, cap |-> cap]

\* The request apiRequest hands to fetch: the code sends it whatever the
\* module-scoped flag says.
apiRequest(kind, cap, pending) == pending (+) SetToBag({Request(kind, cap)})

Answered(r, pending) == pending (-) SetToBag({r})

Ok(resp) == resp.status = 200

\* error.message of the ApiError apiRequest throws
HttpText ==
  [s \in ErrorStatuses |->
     CASE s = 401 -> "HTTP 401"
       [] s = 403 -> "HTTP 403"
       [] s = 500 -> "HTTP 500"]

errorMessage(resp) ==
  IF resp.status = 0 THEN "Network/CORS error"
  ELSE IF resp.hasMsg THEN "server message"
  ELSE HttpText[resp.status]

\* String.prototype.includes, on the messages and needles the code uses
Includes(msg, needle) ==
  CASE needle = "HTTP" -> msg \in {HttpText[s] : s \in ErrorStatuses}
    [] needle = "CORS" -> msg = "Network/CORS error"
    [] needle = "Authentication error being handled" ->
         msg \in {"Authentication error being handled. Please log in again.",
                  "Authentication error being handled or session not validated. Please log in again."}
    [] needle = "Session expired" ->
         msg = "Session expired. Please log in again."
    [] OTHER -> msg = needle

CanStart == BagCardinality(inflight) < MaxInflight


\* how a request ended for the handler that awaited it
Outcome(resp) == IF Ok(resp) THEN "ok" ELSE "failed"

\* The steps the properties below look back at; after any other step
\* `last` holds the empty record.
Observed ==
  {"handleAuthError", "mountResume", "loginResume", "connect",
   "sendGaslessTransaction", "sendBatchTransaction", "autoReconnect",
   "logoutResume"}

Last(op, note) ==
  IF op \in Observed THEN [op |-> op, note |-> note]
  ELSE [op |-> "", note |-> ""]

\* Of the calls of connect, sendGaslessTransaction and sendBatchTransaction
\* `last` keeps those made before the session is validated or while an auth
\* error is handled by useZeroDev for a user, with the error thrown, "null"
\* for a returned null, or "sent" when the SDK's send was called.
CallNote(op, note) ==
  IF \/ ~value.sessionValidated
     \/ (authErrorRef \/ authErrorHandled) /\ value.user # NoUser
    THEN Last(op, note)
    ELSE Last("", "")

\* ------------------------------------------------- contexts/auth-context
\* (mutation: the user is handed out whether validated or not)
getValidatedUser_raw(validated, u) == u

getValidatedUser(validated, u) == IF ~validated THEN NoUser ELSE u

ProviderValue(u, loading, validated) ==
  [user |-> getValidatedUser(validated, u),
   isLoading |-> loading,
   isAuthenticated |-> getValidatedUser(validated, u) # NoUser,
   sessionValidated |-> validated]

\* AuthProvider renders again after every step that changes its state.
Render == value' = ProviderValue(user', isLoading', sessionValidated')

\* ------------------------------------------------------ hooks / components
isConnected == smartAccount # NoAccount

\* pages/home.jsx: what Home shows
HomeLoading == value.isLoading
LoginSectionVisible == ~HomeLoading /\ value.user = NoUser
DashboardMounted == ~HomeLoading /\ value.user # NoUser

\* (mutation: the effect does not look at the auth-error flags)
autoReconnectReady_unguarded ==
  /\ value.sessionValidated
  /\ value.user.walletAddress # "none"
  /\ smartAccount = NoAccount
  /\ ~isConnecting

\* the auto-reconnect effect of useZeroDev has something to do
autoReconnectReady ==
  /\ ~(authErrorRef \/ authErrorHandled \/ ~value.sessionValidated)
  /\ value.user.walletAddress # "none"
  /\ smartAccount = NoAccount
  /\ ~isConnecting

\* the auto-connect effect of DashboardSection calls connect()
autoConnectReady ==
  /\ DashboardMounted
  /\ ~(value.isLoading \/ ~value.sessionValidated)
  /\ ~authErrorHandled
  /\ value.user # NoUser
  /\ value.user.walletAddress = "none"
  /\ ~isConnected
  /\ ~isConnecting

\* Effects run right after the render that enabled them, before the next
\* event, response or timer is handled.
EffectsDone == ~autoReconnectReady /\ ~autoConnectReady

\* ---------------------------------------------------------- initial state
\* new GoogleAuth() on a page that has no script element for Google Identity
\* Services yet.  init and test are the promises of loadGoogleScript that
\* initializeGoogleIdentity and testGoogleSetup await.
FreshGoogle ==
  [isInitialized |-> FALSE,
   initializationPromise |-> "null",
   scripts |-> 0,              \* script elements appended to document.head
   scriptState |-> "none",     \* "none", "loading", "loaded", "failed"
   google |-> FALSE,           \* window.google.accounts is defined
   init |-> "none",            \* "none", "onload", "timer", "listening"
   test |-> "none",
   waiting |-> 0,              \* further callers awaiting the cached promise
   attempts |-> 0,             \* initializations started
   note |-> ""]                \* what the last step did

FreshPage(path, storage) ==
  /\ googleAuth = FreshGoogle
  /\ isHandlingAuthError = FALSE
  /\ queryCache = {}
  /\ localStorage = storage
  /\ pathname = path
  /\ redirectTimers = 0
  /\ clearTimers = 0
  /\ inflight = SetToBag({Request("mount", NoUser)})
  /\ user = NoUser
  /\ isLoading = TRUE
  /\ ctxIsHandlingAuthError = FALSE
  /\ sessionValidated = FALSE
  /\ authErrorHandledRef = FALSE
  /\ value = ProviderValue(NoUser, TRUE, FALSE)
  /\ smartAccount = NoAccount
  /\ isConnecting = FALSE
  /\ authErrorHandled = FALSE
  /\ authErrorRef = FALSE

\* What an earlier visit may have left in localStorage.
EarlierStorage == {{}, {"user", "google_access_token", "google_user_info"}}

Init ==
  /\ \E path \in Paths, storage \in EarlierStorage : FreshPage(path, storage)
  /\ last = Last("load", "")


\* ------------------------------------------------------ lib/queryClient.js
\* (mutation: the early return is missing)
handleAuthErrorSkips_never == FALSE

\* handleAuthError returns at once while an auth error is being handled
handleAuthErrorSkips == isHandlingAuthError

IsAuthStatus(status) == status = 401 \/ status = 403

\* the keys handleAuthError removes from localStorage
handleAuthErrorRemoves == GoogleKeys

\* handleAuthError(error), with error.status = status
handleAuthError(status) ==
  /\ EffectsDone
  /\ UNCHANGED googleAuth
  /\ IF handleAuthErrorSkips
       THEN /\ UNCHANGED <<qcVars, browserVars>>
            /\ last' = Last("handleAuthError", "skipped")
       ELSE IF IsAuthStatus(status)
         THEN /\ isHandlingAuthError' = TRUE
              /\ localStorage' = localStorage \ handleAuthErrorRemoves
              /\ queryCache' = {}
              /\ IF pathname # "/login"
                   THEN /\ redirectTimers < MaxTimers
                        /\ redirectTimers' = redirectTimers + 1
                   ELSE UNCHANGED redirectTimers
              /\ UNCHANGED <<pathname, clearTimers>>
              /\ last' = Last("handleAuthError", "handled")
         ELSE UNCHANGED <<qcVars, browserVars, last>>
  /\ UNCHANGED <<inflight, ctxVars, hookVars>>

resetAuthErrorHandling ==
  /\ EffectsDone
  /\ UNCHANGED googleAuth
  /\ isHandlingAuthError' = FALSE
  /\ last' = IF isHandlingAuthError
               THEN [op |-> "resetAuthErrorHandling", note |-> "reset"]
               ELSE Last("resetAuthErrorHandling", "")
  /\ UNCHANGED <<queryCache, browserVars, inflight, ctxVars, hookVars>>

\* The 100 ms timer of handleAuthError fires: window.location.href = "/login"
\* loads the page anew.  Module state, React state, timers and pending
\* requests of the old page are gone; localStorage stays.
redirectFire ==
  /\ EffectsDone
  /\ googleAuth' = FreshGoogle
  /\ redirectTimers > 0
  /\ pathname' = "/login"
  /\ UNCHANGED localStorage
  /\ isHandlingAuthError' = FALSE
  /\ queryCache' = {}
  /\ redirectTimers' = 0
  /\ clearTimers' = 0
  /\ inflight' = SetToBag({Request("mount", NoUser)})
  /\ user' = NoUser
  /\ isLoading' = TRUE
  /\ ctxIsHandlingAuthError' = FALSE
  /\ sessionValidated' = FALSE
  /\ authErrorHandledRef' = FALSE
  /\ smartAccount' = NoAccount
  /\ isConnecting' = FALSE
  /\ authErrorHandled' = FALSE
  /\ authErrorRef' = FALSE
  /\ last' = Last("redirectFire", "")
  /\ Render

\* the default queryFn: a query is built in the cache and fetched
queryFn ==
  /\ EffectsDone
  /\ UNCHANGED googleAuth
  /\ CanStart
  /\ \E key \in QueryKeys : queryCache' = queryCache \cup {key}
  /\ inflight' = apiRequest("query", NoUser, inflight)
  /\ last' = Last("queryFn", "")
  /\ UNCHANGED <<isHandlingAuthError, browserVars, ctxVars, hookVars>>

\* the answer to a query: apiRequest returns or throws; nothing in
\* queryClient.js reacts to the status
queryResume(r, resp) ==
  /\ EffectsDone
  /\ UNCHANGED googleAuth
  /\ BagIn(r, inflight)
  /\ r.kind = "query"
  /\ inflight' = Answered(r, inflight)
  /\ last' = Last("queryResume", Outcome(resp))
  /\ UNCHANGED <<qcVars, browserVars, ctxVars, hookVars>>

\* ------------------------------------------------- AuthProvider handlers
\* (mutation: a validation that finds no user leaves the record in place)
mountStores_keeps(resp, storage) ==
  IF Ok(resp) /\ resp.data # NoUser THEN storage \cup {"user"} ELSE storage

\* localStorage after the mount validation: the "user" record is written
\* when the response carries a user and removed otherwise
mountStores(resp, storage) ==
  IF Ok(resp) /\ resp.data # NoUser
    THEN storage \cup {"user"}
    ELSE storage \ {"user"}

\* the effect run on mount has sent GET /api/auth/validate; its answer
mountResume(r, resp) ==
  /\ EffectsDone
  /\ UNCHANGED googleAuth
  /\ BagIn(r, inflight)
  /\ r.kind = "mount"
  /\ inflight' = Answered(r, inflight)
  /\ user' = IF Ok(resp) /\ resp.data # NoUser THEN resp.data ELSE NoUser
  /\ localStorage' = mountStores(resp, localStorage)
  /\ sessionValidated' = TRUE
  /\ isLoading' = FALSE
  /\ last' = Last("mountResume", Outcome(resp))
  /\ UNCHANGED <<qcVars, pathname, redirectTimers, clearTimers,
                 ctxIsHandlingAuthError, authErrorHandledRef, hookVars>>
  /\ Render

\* googleAuth.signOut(): the keys it removes
signOutRemoves == GoogleKeys

\* what signOut has removed when one of its removeItem calls throws
signOutThrows ==
  {{}, {"google_access_token"}, {"google_access_token", "google_id_token"}}

\* logout() up to its await: signOut, whose exception is swallowed, then
\* POST /api/auth/logout
logoutCall(storage, pending) ==
  /\ \E removed \in {signOutRemoves} \cup signOutThrows :
       localStorage' = storage \ removed
  /\ inflight' = apiRequest("logout", NoUser, pending)

\* the Logout button of Home
logout ==
  /\ EffectsDone
  /\ UNCHANGED googleAuth
  /\ CanStart
  /\ ~HomeLoading /\ value.user # NoUser
  /\ logoutCall(localStorage, inflight)
  /\ last' = Last("logout", "")
  /\ UNCHANGED <<qcVars, pathname, redirectTimers, clearTimers, ctxVars,
                 hookVars>>

\* (mutation: the storage is cleared only after a successful server logout)
logoutStores_onSuccess(resp, storage) == IF Ok(resp) THEN {} ELSE storage

\* what logout() leaves in localStorage
logoutStores(resp, storage) == {}

\* logout() after its request was answered, whatever the answer
logoutResume(r, resp) ==
  /\ EffectsDone
  /\ UNCHANGED googleAuth
  /\ BagIn(r, inflight)
  /\ r.kind = "logout"
  /\ inflight' = Answered(r, inflight)
  /\ user' = NoUser
  /\ sessionValidated' = TRUE
  /\ ctxIsHandlingAuthError' = FALSE
  /\ authErrorHandledRef' = FALSE
  /\ localStorage' = logoutStores(resp, localStorage)
  /\ last' = Last("logoutResume", Outcome(resp))
  /\ UNCHANGED <<qcVars, pathname, redirectTimers, clearTimers, isLoading,
                 hookVars>>
  /\ Render


\* googleAuth.signIn(): the keys its token callback stores
signInStores == {"google_access_token", "google_user_info"}

\* handleGoogleLogin of LoginSection after the Google popup succeeded:
\* login(accessToken, idToken) up to its await of POST /api/auth/google
login ==
  /\ EffectsDone
  /\ UNCHANGED googleAuth
  /\ CanStart
  /\ LoginSectionVisible
  /\ localStorage' = localStorage \cup signInStores
  /\ isLoading' = TRUE
  /\ isHandlingAuthError' = FALSE
  /\ ctxIsHandlingAuthError' = FALSE
  /\ authErrorHandledRef' = FALSE
  /\ inflight' = apiRequest("login", NoUser, inflight)
  /\ last' = Last("login", "")
  /\ UNCHANGED <<queryCache, pathname, redirectTimers, clearTimers, user,
                 sessionValidated, hookVars>>
  /\ Render

\* (mutation: the finally block is missing, only success ends the loading)
loginFinally_onSuccess(resp) == ~Ok(resp)

\* isLoading as the finally block of login leaves it
loginFinally(resp) == FALSE

\* login() after its request was answered
loginResume(r, resp) ==
  /\ EffectsDone
  /\ UNCHANGED googleAuth
  /\ BagIn(r, inflight)
  /\ r.kind = "login"
  /\ inflight' = Answered(r, inflight)
  /\ IF Ok(resp)
       THEN /\ user' = resp.data
            /\ sessionValidated' = TRUE
            /\ localStorage' = localStorage \cup {"user"}
       ELSE UNCHANGED <<user, sessionValidated, localStorage>>
  /\ isLoading' = loginFinally(resp)
  /\ last' = Last("loginResume", Outcome(resp))
  /\ UNCHANGED <<qcVars, pathname, redirectTimers, clearTimers,
                 ctxIsHandlingAuthError, authErrorHandledRef, hookVars>>
  /\ Render

\* (mutation: the guard is never taken)
ctxAuthErrorGuard_never == FALSE

\* the guard validateSession, updateUserWallet and refreshUser share
ctxAuthErrorGuard == ctxIsHandlingAuthError \/ authErrorHandledRef

\* the error the guard of updateUserWallet and refreshUser throws
AuthErrorBeingHandled ==
  "Authentication error being handled. Please log in again."

\* validateSession() up to its await
validateSession ==
  /\ EffectsDone
  /\ UNCHANGED googleAuth
  /\ IF user = NoUser
       THEN UNCHANGED <<inflight, last>>
       ELSE IF ctxAuthErrorGuard
         THEN /\ last' = [op |-> "validateSession", note |-> "false"]
              /\ UNCHANGED inflight
         ELSE /\ CanStart
              /\ inflight' = apiRequest("validateSession", user, inflight)
              /\ last' = Last("validateSession", "sent")
  /\ UNCHANGED <<qcVars, browserVars, ctxVars, hookVars>>

\* validateSession() after its request was answered; r.cap is the user of
\* the render that made the call
validateSessionResume(r, resp) ==
  /\ EffectsDone
  /\ UNCHANGED googleAuth
  /\ BagIn(r, inflight)
  /\ r.kind = "validateSession"
  /\ IF Ok(resp) /\ resp.data # NoUser
       THEN /\ IF resp.data # r.cap
                 THEN /\ user' = resp.data
                      /\ localStorage' = localStorage \cup {"user"}
                 ELSE UNCHANGED <<user, localStorage>>
            /\ inflight' = Answered(r, inflight)
       ELSE IF Ok(resp)
         THEN /\ user' = NoUser
              /\ localStorage' = localStorage \ {"user"}
              /\ inflight' = Answered(r, inflight)
         ELSE /\ user' = NoUser
              /\ IF IsAuthStatus(resp.status)
                   THEN logoutCall(localStorage \ {"user"}, Answered(r, inflight))
                   ELSE /\ localStorage' = localStorage \ {"user"}
                        /\ inflight' = Answered(r, inflight)
  /\ last' = Last("validateSessionResume", Outcome(resp))
  /\ UNCHANGED <<qcVars, pathname, redirectTimers, clearTimers, isLoading,
                 ctxIsHandlingAuthError, sessionValidated,
                 authErrorHandledRef, hookVars>>
  /\ Render

\* refreshUser() up to its await
refreshUser ==
  /\ EffectsDone
  /\ UNCHANGED googleAuth
  /\ IF ctxAuthErrorGuard
       THEN /\ last' = [op |-> "refreshUser", note |-> AuthErrorBeingHandled]
            /\ UNCHANGED inflight
       ELSE /\ CanStart
            /\ inflight' = apiRequest("refreshUser", NoUser, inflight)
            /\ last' = Last("refreshUser", "sent")
  /\ UNCHANGED <<qcVars, browserVars, ctxVars, hookVars>>

\* refreshUser() after its request was answered
refreshUserResume(r, resp) ==
  /\ EffectsDone
  /\ UNCHANGED googleAuth
  /\ BagIn(r, inflight)
  /\ r.kind = "refreshUser"
  /\ IF Ok(resp)
       THEN /\ user' = resp.data
            /\ localStorage' = localStorage \cup {"user"}
            /\ inflight' = Answered(r, inflight)
            /\ UNCHANGED <<ctxIsHandlingAuthError, authErrorHandledRef>>
       ELSE IF Includes(errorMessage(resp), "HTTP 401")
         THEN /\ ctxIsHandlingAuthError' = TRUE
              /\ authErrorHandledRef' = TRUE
              /\ logoutCall(localStorage, Answered(r, inflight))
              /\ UNCHANGED user
         ELSE /\ inflight' = Answered(r, inflight)
              /\ UNCHANGED <<user, localStorage, ctxIsHandlingAuthError,
                             authErrorHandledRef>>
  /\ last' = IF ~Ok(resp) /\ Includes(errorMessage(resp), "HTTP 401")
               THEN [op |-> "refreshUserResume", note |-> "401"]
               ELSE Last("refreshUserResume", Outcome(resp))
  /\ UNCHANGED <<qcVars, pathname, redirectTimers, clearTimers, isLoading,
                 sessionValidated, hookVars>>
  /\ Render


\* ------------------------------------------------------- hooks/use-zerodev
\* what updateUserWallet throws for an error of apiRequest with this message
\* ("null": it returns null instead)
updateUserWalletThrows(msg) ==
  IF Includes(msg, "HTTP 404") THEN "User not found"
  ELSE IF Includes(msg, "HTTP 400") THEN "Invalid wallet address"
  ELSE IF Includes(msg, "HTTP 401") THEN "Session expired. Please log in again."
  ELSE IF Includes(msg, "HTTP 403") THEN "You don't have permission"
  ELSE IF Includes(msg, "fetch") \/ Includes(msg, "NetworkError")
    THEN "Connection error"
  ELSE IF Includes(msg, "Authentication error being handled") THEN "null"
  ELSE "Failed to update wallet"

\* what updateUserWallet throws before it sends anything ("": nothing)
updateUserWalletRejects ==
  IF user = NoUser THEN "No user logged in"
  ELSE IF ctxAuthErrorGuard THEN AuthErrorBeingHandled
  ELSE ""

\* the errors the catch of connect takes for authentication errors
connectCatches(msg) ==
  \/ Includes(msg, "HTTP 401")
  \/ Includes(msg, "Session expired")
  \/ Includes(msg, "Authentication error being handled")
  \/ Includes(msg, "User must be authenticated first")

\* the auto-reconnect effect of useZeroDev
autoReconnect ==
  /\ autoReconnectReady
  /\ UNCHANGED googleAuth
  /\ smartAccount' =
       [address |-> value.user.walletAddress, owner |-> value.user.googleId]
  /\ last' = Last("autoReconnect", "")
  /\ UNCHANGED <<qcVars, browserVars, inflight, ctxVars, isConnecting,
                 authErrorHandled, authErrorRef>>

\* (mutation: connect starts without checking anything)
connectThrows_none == ""

\* the error connect() throws before its try block ("": none)
connectThrows ==
  IF value.user = NoUser THEN "User must be authenticated first"
  ELSE IF ~value.sessionValidated
    THEN "Session validation required before wallet operations"
  ELSE IF authErrorRef \/ authErrorHandled
    THEN "Authentication error being handled. Please log in again."
  ELSE ""

\* connect() up to the await of the PATCH that updateUserWallet sends.  The
\* SDK's createSmartAccount resolves without waiting for anything.
connect ==
  /\ UNCHANGED googleAuth
  /\ IF connectThrows # ""
       THEN /\ last' = CallNote("connect", connectThrows)
            /\ UNCHANGED <<inflight, hookVars>>
       ELSE IF value.user.walletAddress # "none"
         THEN /\ smartAccount' =
                   [address |-> value.user.walletAddress,
                    owner |-> value.user.googleId]
              /\ last' = CallNote("connect", "restored")
              /\ UNCHANGED <<inflight, isConnecting, authErrorHandled,
                             authErrorRef>>
         ELSE \E w \in WalletAddresses :
           \* w: the address zeroDevWallet.createSmartAccount returns
           /\ IF updateUserWalletRejects # ""
                   /\ ~connectCatches(updateUserWalletRejects)
                THEN \* updateUserWallet throws; connect throws it again
                     /\ isConnecting' = FALSE
                     /\ last' = CallNote("connect", updateUserWalletRejects)
                     /\ UNCHANGED <<inflight, smartAccount, authErrorHandled,
                                    authErrorRef>>
                ELSE IF updateUserWalletRejects # ""
                  THEN \* updateUserWallet throws, the catch of connect
                       \* takes it for an authentication error
                       /\ authErrorRef' = TRUE
                       /\ authErrorHandled' = TRUE
                       /\ isConnecting' = FALSE
                       /\ last' = [op |-> "connect", note |-> "null"]
                       /\ UNCHANGED <<inflight, smartAccount>>
                  ELSE /\ CanStart
                       /\ inflight' =
                            apiRequest("updateUserWallet",
                                       [googleId |-> value.user.googleId,
                                        walletAddress |-> w],
                                       inflight)
                       /\ isConnecting' = TRUE
                       /\ last' = CallNote("connect", "sent")
                       /\ UNCHANGED <<smartAccount, authErrorHandled,
                                      authErrorRef>>
  /\ UNCHANGED <<qcVars, browserVars, ctxVars>>

\* the auto-connect effect of DashboardSection calls connect()
autoConnect == autoConnectReady /\ connect

\* a consumer of useWeb3() calls connect()
callConnect == EffectsDone /\ connect

\* updateUserWallet() and then connect() after the PATCH was answered;
\* r.cap holds the googleId of the user connect saw and the new address
connectResume(r, resp) ==
  /\ EffectsDone
  /\ UNCHANGED googleAuth
  /\ BagIn(r, inflight)
  /\ r.kind = "updateUserWallet"
  /\ inflight' = Answered(r, inflight)
  /\ isConnecting' = FALSE
  /\ IF Ok(resp)
       THEN /\ user' = resp.data
            /\ localStorage' = localStorage \cup {"user"}
            /\ smartAccount' =
                 [address |-> r.cap.walletAddress, owner |-> r.cap.googleId]
            /\ UNCHANGED <<ctxIsHandlingAuthError, authErrorHandledRef,
                           clearTimers, authErrorHandled, authErrorRef>>
       ELSE /\ IF Includes(errorMessage(resp), "HTTP 401")
                    /\ updateUserWalletThrows(errorMessage(resp))
                         = "Session expired. Please log in again."
                 THEN /\ ctxIsHandlingAuthError' = TRUE
                      /\ authErrorHandledRef' = TRUE
                      /\ user' = NoUser
                      /\ localStorage' = localStorage \ {"user"}
                      /\ clearTimers < MaxClearTimers
                      /\ clearTimers' = clearTimers + 1
                 ELSE UNCHANGED <<ctxIsHandlingAuthError, authErrorHandledRef,
                                  user, localStorage, clearTimers>>
            /\ IF updateUserWalletThrows(errorMessage(resp)) = "null"
                 THEN /\ smartAccount' =
                           [address |-> r.cap.walletAddress,
                            owner |-> r.cap.googleId]
                      /\ UNCHANGED <<authErrorHandled, authErrorRef>>
                 ELSE IF connectCatches(updateUserWalletThrows(errorMessage(resp)))
                   THEN /\ authErrorRef' = TRUE
                        /\ authErrorHandled' = TRUE
                        /\ UNCHANGED smartAccount
                   ELSE UNCHANGED <<smartAccount, authErrorHandled,
                                    authErrorRef>>
  /\ last' = IF resp.status = 401
               THEN [op |-> "connectResume", note |-> "401"]
               ELSE Last("connectResume", Outcome(resp))
  /\ UNCHANGED <<qcVars, pathname, redirectTimers, isLoading,
                 sessionValidated>>
  /\ Render

\* the 50 ms timer set by updateUserWallet on a 401 fires
clearFire ==
  /\ EffectsDone
  /\ UNCHANGED googleAuth
  /\ clearTimers > 0
  /\ clearTimers' = clearTimers - 1
  /\ localStorage' = IF pathname # "/login" THEN {} ELSE localStorage
  /\ last' = Last("clearFire", "")
  /\ UNCHANGED <<qcVars, pathname, redirectTimers, inflight, ctxVars,
                 hookVars>>

disconnect ==
  /\ EffectsDone
  /\ UNCHANGED googleAuth
  /\ smartAccount' = NoAccount
  /\ authErrorRef' = FALSE
  /\ authErrorHandled' = FALSE
  /\ last' = Last("disconnect", "")
  /\ UNCHANGED <<qcVars, browserVars, inflight, ctxVars, isConnecting>>

\* the error sendGaslessTransaction and sendBatchTransaction throw before
\* anything else ("": none)
sendThrows ==
  IF authErrorRef \/ authErrorHandled \/ ~value.sessionValidated
    THEN "Authentication error being handled or session not validated. Please log in again."
    ELSE ""

\* sendGaslessTransaction / sendBatchTransaction up to the SDK's send.  The
\* SDK's send resolves with a hash, or rejects, after a delay; nothing of the
\* state changes when it does.
sendTransaction(op) ==
  /\ EffectsDone
  /\ UNCHANGED googleAuth
  /\ IF sendThrows # ""
       THEN /\ last' = CallNote(op, sendThrows)
            /\ UNCHANGED smartAccount
       ELSE /\ smartAccount' =
                 IF smartAccount = NoAccount /\ value.user.walletAddress # "none"
                   THEN [address |-> value.user.walletAddress,
                         owner |-> value.user.googleId]
                   ELSE smartAccount
            /\ IF smartAccount = NoAccount
                 THEN \* "Smart account not initialized. Please connect
                      \* your wallet first."
                      last' = CallNote(op, "Smart account not initialized")
                 ELSE \* zeroDevWallet's send is called
                      last' = CallNote(op, "sent")
  /\ UNCHANGED <<qcVars, browserVars, inflight, ctxVars, isConnecting,
                 authErrorHandled, authErrorRef>>

sendGaslessTransaction == sendTransaction("sendGaslessTransaction")

sendBatchTransaction == sendTransaction("sendBatchTransaction")

\* ------------------------------------------------------------ specification
Next ==
  \/ \E status \in ErrorStatuses \cup {0} : handleAuthError(status)
  \/ resetAuthErrorHandling
  \/ redirectFire
  \/ queryFn
  \/ \E r \in BagToSet(inflight), resp \in Responses : queryResume(r, resp)
  \/ \E r \in BagToSet(inflight), resp \in Responses : mountResume(r, resp)
  \/ login
  \/ \E r \in BagToSet(inflight), resp \in Responses : loginResume(r, resp)
  \/ logout
  \/ \E r \in BagToSet(inflight), resp \in Responses : logoutResume(r, resp)
  \/ validateSession
  \/ \E r \in BagToSet(inflight), resp \in Responses :
       validateSessionResume(r, resp)
  \/ refreshUser
  \/ \E r \in BagToSet(inflight), resp \in Responses :
       refreshUserResume(r, resp)
  \/ autoReconnect
  \/ autoConnect
  \/ callConnect
  \/ \E r \in BagToSet(inflight), resp \in Responses : connectResume(r, resp)
  \/ clearFire
  \/ disconnect
  \/ sendGaslessTransaction
  \/ sendBatchTransaction

Spec == Init /\ [][Next]_vars

\* The answer to a request that is awaited arrives, and the handler awaiting
\* it is resumed, however often effects run in between; an effect that is
\* due runs.
MountCompletes ==
  \E r \in BagToSet(inflight), resp \in Responses : mountResume(r, resp)
LoginCompletes ==
  \E r \in BagToSet(inflight), resp \in Responses : loginResume(r, resp)
LogoutCompletes ==
  \E r \in BagToSet(inflight), resp \in Responses : logoutResume(r, resp)

FairSpec ==
  /\ Spec
  /\ SF_vars(MountCompletes)
  /\ SF_vars(LoginCompletes)
  /\ WF_vars(autoReconnect)
  /\ WF_vars(autoConnect)


\* -------------------------------------------------------- lib/google-auth.js
\* The googleAuth singleton and the script element share no state with the
\* rest of the application, so their steps are explored on their own, on a
\* page whose other state is at rest.

\* loadGoogleScript() up to the return of its promise, called for the
\* promise `who`: resolved at once when window.google.accounts is there,
\* listening to the script element that is already in the document, or
\* appending the element and waiting for its onload / onerror
loadGoogleScript(g, who) ==
  IF g.google THEN [g EXCEPT ![who] = "resolved"]
  ELSE IF g.scripts > 0 THEN [g EXCEPT ![who] = "listening"]
  ELSE [g EXCEPT !.scripts = @ + 1, !.scriptState = "loading",
                 ![who] = "onload"]

\* the rest of the function initializeGoogleIdentity caches the promise of,
\* after its loadGoogleScript() has resolved (loaded) or rejected
initializationSettles(g, loaded) ==
  IF loaded /\ g.google
    THEN [g EXCEPT !.isInitialized = TRUE,
                   !.initializationPromise = "fulfilled",
                   !.init = "none", !.waiting = 0, !.note = "fulfilled"]
    ELSE [g EXCEPT !.initializationPromise = "null",
                   !.init = "none", !.waiting = 0, !.note = "rejected"]

\* the promise testGoogleSetup awaits has settled
testSettles(g) == [g EXCEPT !.test = "none"]

\* (mutation: the cached promise is not looked at)
initializationShared_never == FALSE

\* initializeGoogleIdentity returns the cached promise
initializationShared == googleAuth.initializationPromise # "null"

\* googleAuth.initializeGoogleIdentity(), called by signIn()
initializeGoogleIdentity ==
  /\ IF googleAuth.isInitialized
       THEN googleAuth' = [googleAuth EXCEPT !.note = "returned"]
       ELSE IF initializationShared
         THEN /\ googleAuth.waiting < MaxCallers
              /\ googleAuth' = [googleAuth EXCEPT !.waiting = @ + 1,
                                                  !.note = "shared"]
         ELSE /\ googleAuth.attempts < MaxAttempts
              /\ LET g == loadGoogleScript(
                            [googleAuth EXCEPT
                               !.attempts = @ + 1,
                               !.initializationPromise = "pending",
                               !.note = "started"],
                            "init")
                 IN googleAuth' = IF g.init = "resolved"
                                    THEN initializationSettles(g, TRUE)
                                    ELSE g
  /\ UNCHANGED appVars

\* testGoogleSetup of LoginSection calls googleAuth.loadGoogleScript()
testGoogleSetup ==
  /\ googleAuth.test = "none"
  /\ LET g == loadGoogleScript([googleAuth EXCEPT !.note = ""], "test")
     IN googleAuth' = IF g.test = "resolved" THEN testSettles(g) ELSE g
  /\ UNCHANGED appVars

\* what the load event of the script element does to a pending promise of
\* loadGoogleScript: the element's own onload sets a 100 ms timer, a
\* listener resolves
AfterLoad(state) ==
  IF state = "onload" THEN "timer"
  ELSE IF state = "listening" THEN "resolved"
  ELSE state

\* the script element has loaded; defined: it has defined
\* window.google.accounts
scriptLoad(defined) ==
  /\ googleAuth.scriptState = "loading"
  /\ LET g == [googleAuth EXCEPT !.scriptState = "loaded",
                                 !.google = defined,
                                 !.note = "",
                                 !.init = AfterLoad(@),
                                 !.test = AfterLoad(@)]
         h == IF g.test = "resolved" THEN testSettles(g) ELSE g
     IN googleAuth' = IF h.init = "resolved"
                        THEN initializationSettles(h, TRUE)
                        ELSE h
  /\ UNCHANGED appVars

\* the script element could not be loaded: every pending promise of
\* loadGoogleScript rejects
scriptError ==
  /\ googleAuth.scriptState = "loading"
  /\ LET g == [googleAuth EXCEPT !.scriptState = "failed", !.note = ""]
         h == IF g.test # "none" THEN testSettles(g) ELSE g
     IN googleAuth' = IF h.init # "none"
                        THEN initializationSettles(h, FALSE)
                        ELSE h
  /\ UNCHANGED appVars

\* the 100 ms timer set by the onload of the script element fires
loadTimerFire(who) ==
  /\ googleAuth[who] = "timer"
  /\ LET g == [googleAuth EXCEPT !.note = ""]
     IN googleAuth' = IF who = "init"
                        THEN initializationSettles(g, TRUE)
                        ELSE testSettles(g)
  /\ UNCHANGED appVars

GoogleInit ==
  /\ FreshPage("/login", {})
  /\ last = Last("load", "")

GoogleNext ==
  \/ initializeGoogleIdentity
  \/ testGoogleSetup
  \/ \E defined \in BOOLEAN : scriptLoad(defined)
  \/ scriptError
  \/ \E who \in {"init", "test"} : loadTimerFire(who)

GoogleSpec == GoogleInit /\ [][GoogleNext]_vars


\* ------------------------------------------------------------------ claims
\* a step hands a request to the network
SendsRequest ==
  \E r \in BagToSet(inflight') : CopiesIn(r, inflight') > CopiesIn(r, inflight)

\* C1: while the module-scoped isHandlingAuthError flag is set, no call of
\* apiRequest sends a request to the network.
C1_NoRequestWhileHandling ==
  [][isHandlingAuthError /\ isHandlingAuthError' => ~SendsRequest]_vars

\* a request awaited by some handler is answered with 401 or 403
AuthRejection ==
  \E r \in BagToSet(inflight), resp \in Responses :
    /\ IsAuthStatus(resp.status)
    /\ \/ queryResume(r, resp)
       \/ mountResume(r, resp)
       \/ loginResume(r, resp)
       \/ logoutResume(r, resp)
       \/ validateSessionResume(r, resp)
       \/ refreshUserResume(r, resp)
       \/ connectResume(r, resp)

\* C2: when apiRequest rejects because the server answered 401 or 403, the
\* module-scoped isHandlingAuthError flag is set.
C2_AuthRejectionSetsFlag == [][AuthRejection => isHandlingAuthError']_vars

\* C3: at most one redirect to /login is scheduled and not yet fired.
C3_AtMostOneRedirect == redirectTimers <= 1


\* C4: of the 401/403 errors passed to handleAuthError between two resets
\* only the first is processed: it sets the flag and schedules one redirect
\* unless the page is /login; every later call changes neither the flag,
\* localStorage, the query cache nor the scheduled redirects.
C4_OnlyFirstProcessed ==
  [][last'.op = "handleAuthError" =>
       IF isHandlingAuthError
         THEN /\ last'.note = "skipped"
              /\ UNCHANGED <<isHandlingAuthError, localStorage, queryCache,
                             redirectTimers>>
         ELSE /\ last'.note = "handled"
              /\ isHandlingAuthError'
              /\ redirectTimers' =
                   redirectTimers + (IF pathname # "/login" THEN 1 ELSE 0)]_vars

\* a second 401/403 was passed in while the redirect of the first is pending
C4_Witness ==
  /\ last = Last("handleAuthError", "skipped")
  /\ isHandlingAuthError
  /\ redirectTimers = 1

\* C5: after handleAuthError has handled a 401/403, localStorage holds
\* neither the Google keys nor the "user" record and the query cache is
\* empty.
C5_CredentialsCleared ==
  last = Last("handleAuthError", "handled") =>
    /\ localStorage \cap StorageKeys = {}
    /\ queryCache = {}

\* C6: the module-scoped flag, once set, is cleared only by a login that has
\* completed successfully (the reset utility called by hand and a new page
\* load set aside).
C6_OnlySuccessfulLoginEnds ==
  [][isHandlingAuthError /\ ~isHandlingAuthError' =>
       \/ last' = Last("loginResume", "ok")
       \/ resetAuthErrorHandling
       \/ redirectFire]_vars

\* C7: when a login has completed successfully the auth-error flags are all
\* false, so that connect, sendGaslessTransaction and sendBatchTransaction
\* are no longer refused.  login() itself assigns false to the module-scoped
\* flag and to the two flags of AuthProvider; the formula states the claim
\* for the two flags of useZeroDev, the ones its wallet operations test.
C7_LoginResetsAllFlags ==
  last = Last("loginResume", "ok") => ~authErrorHandled /\ ~authErrorRef

\* C8: while sessionValidated is false, the user AuthProvider hands out is
\* null and isAuthenticated is false.
C8_NoUserBeforeValidation ==
  /\ value.sessionValidated = sessionValidated
  /\ ~sessionValidated => value.user = NoUser /\ ~value.isAuthenticated

\* AuthProvider holds a user that the server has not validated yet
C8_Witness == user # NoUser /\ ~sessionValidated /\ value.user = NoUser

\* C9 as stated: sessionValidated turns true only when the validation
\* started on mount completes; that completion leaves the session validated,
\* with the user of the response when it carries one, and otherwise with no
\* user and no "user" record in localStorage.
MountOutcome ==
  \A r \in BagToSet(inflight), resp \in Responses :
    mountResume(r, resp) =>
      /\ sessionValidated'
      /\ IF Ok(resp) /\ resp.data # NoUser
           THEN /\ user' = resp.data
                /\ value'.user = resp.data
                /\ value'.isAuthenticated
           ELSE /\ user' = NoUser
                /\ value'.user = NoUser
                /\ ~value'.isAuthenticated
                /\ "user" \notin localStorage'

C10_NoInfiniteLoading == isLoading ~> ~isLoading

\* a login whose request failed has ended the loading state
C10_Witness == last = Last("loginResume", "failed") /\ ~isLoading

\* the GET /api/auth/validate requests sent and not answered yet
ValidationsInFlight ==
  BagCardinality(
    [r \in {x \in BagToSet(inflight) :
              x.kind \in {"mount", "validateSession"}} |-> inflight[r]])

\* C11: at most one GET /api/auth/validate is in flight at any time; a
\* validation started while another is pending sends no second request.
C11_OneValidationInFlight == ValidationsInFlight <= 1

WalletOps == {"connect", "sendGaslessTransaction", "sendBatchTransaction"}

\* the errors the wallet operations throw before they do anything
GuardErrors ==
  {"User must be authenticated first",
   "Session validation required before wallet operations",
   "Authentication error being handled. Please log in again.",
   "Authentication error being handled or session not validated. Please log in again."}

\* C12: while sessionValidated is false no wallet operation takes effect: a
\* call of connect, sendGaslessTransaction or sendBatchTransaction has failed
\* with the error of one of its guards, before createSmartAccount, the PATCH
\* of the wallet address or the SDK's send, and no such PATCH is in flight.
C12_NoWalletOpBeforeValidation ==
  ~sessionValidated =>
    /\ last.op \in WalletOps => last.note \in GuardErrors
    /\ \A r \in BagToSet(inflight) : r.kind # "updateUserWallet"

\* connect was called before the mount validation was answered, when
\* refreshUser had already put a user into the state of AuthProvider
C12_Witness ==
  /\ ~sessionValidated
  /\ last.op = "connect"
  /\ last.note \in GuardErrors
  /\ user # NoUser

\* C13: a call of connect made before the session is validated fails with
\* "Session validation required before wallet operations".
C13_ConnectBeforeValidation ==
  last.op = "connect" /\ ~sessionValidated =>
    last.note = "Session validation required before wallet operations"

\* C14: the auto-reconnect effect sets smartAccount only when
\* sessionValidated is true and neither authErrorRef nor authErrorHandled is
\* set, and the account it sets has the address user.walletAddress and the
\* owner user.googleId.
C14_AutoReconnectAllowed ==
  [][autoReconnect =>
       /\ sessionValidated
       /\ ~authErrorRef
       /\ ~authErrorHandled
       /\ user.walletAddress # "none"
       /\ smartAccount' =
            [address |-> user.walletAddress, owner |-> user.googleId]]_vars

\* the effect has restored the account of a user who has a wallet
C14_Witness ==
  /\ last.op = "autoReconnect"
  /\ smartAccount = [address |-> "w1", owner |-> "g1"]
  /\ user.walletAddress = "w1"

\* C15: when the hook's authErrorRef or authErrorHandled is set, connect,
\* sendGaslessTransaction and sendBatchTransaction return null instead of
\* throwing (stated for a validated session with a user, where no other
\* guard of these operations applies).
C15_NullWhileHandling ==
  /\ last.op \in WalletOps
  /\ authErrorRef \/ authErrorHandled
  /\ value.user # NoUser
  => last.note = "null"

\* C16: after updateUserWallet has received a 401 inside connect, no further
\* connect call, SDK wallet creation or wallet PATCH request is started
\* automatically, by the dashboard's auto-connect or the hook's
\* auto-reconnect, until the user logs in again.  Stated for the step that
\* follows the 401, which no login can precede.
C16_NoLoopAfterWallet401 ==
  [][last = [op |-> "connectResume", note |-> "401"] =>
       ~autoConnect /\ ~autoReconnect]_vars

\* C17: when the request of updateUserWallet is answered with 401, the auth
\* context sets its auth-error flags, clears the user and the cached user
\* record, and redirects to the login page at once.
C17_Wallet401Handled ==
  last = [op |-> "connectResume", note |-> "401"] =>
    /\ ctxIsHandlingAuthError
    /\ authErrorHandledRef
    /\ user = NoUser
    /\ "user" \notin localStorage
    /\ pathname = "/login" \/ redirectTimers > 0

\* a call of connect() that gets as far as updateUserWallet
ConnectUpdatesWallet ==
  /\ autoConnect \/ callConnect
  /\ connectThrows = ""
  /\ value.user.walletAddress = "none"

C19_LogoutClearsAll ==
  last.op = "logoutResume" =>
    /\ user = NoUser
    /\ sessionValidated
    /\ ~ctxIsHandlingAuthError
    /\ ~authErrorHandledRef
    /\ localStorage = {}
    /\ value.user = NoUser

\* a logout whose server request failed has returned
C19_Witness ==
  /\ last = [op |-> "logoutResume", note |-> "failed"]
  /\ user = NoUser
  /\ sessionValidated
  /\ localStorage = {}

\* C20: after resetAuthErrorHandling has been called, apiRequest sends its
\* request, and a 401/403 passed to handleAuthError is processed afresh: the
\* flag is set, the credentials (the Google keys and the "user" record) and
\* the query cache are cleared, and the redirect is scheduled.
C20_WorksAfterReset ==
  [][last.op = "resetAuthErrorHandling" =>
       /\ queryFn => inflight' # inflight
       /\ handleAuthError(401) \/ handleAuthError(403) =>
            /\ isHandlingAuthError'
            /\ localStorage' \cap StorageKeys = {}
            /\ queryCache' = {}
            /\ pathname # "/login" => redirectTimers' = redirectTimers + 1]_vars

\* refreshUser() rejects with the 401 it received: the logout it awaited,
\* the only one pending, returns
refreshUserRejects ==
  /\ last = [op |-> "refreshUserResume", note |-> "401"]
  /\ CopiesIn(Request("logout", NoUser), inflight) = 1
  /\ LogoutCompletes

\* C22: when refreshUser has rejected because of a 401, isHandlingAuthError
\* and authErrorHandledRef of the auth context are still true (and stay true
\* until the next login).
C22_FlagsStayAfterRefresh401 ==
  [][refreshUserRejects =>
       ctxIsHandlingAuthError' /\ authErrorHandledRef']_vars

\* C21: Google Identity initialization is coordinated by one cached promise.
\* The script element is appended at most once; a call of
\* initializeGoogleIdentity made while an initialization is pending shares
\* it (no new attempt, no new script element); a call made after a
\* successful initialization returns without loading anything; a failed
\* initialization leaves the cached promise null and isInitialized false,
\* and the next call starts a new attempt.
C21_OneCachedPromise ==
  /\ [](googleAuth.scripts <= 1)
  /\ [](googleAuth.note = "rejected" =>
          googleAuth.initializationPromise = "null"
            /\ ~googleAuth.isInitialized)
  /\ [][initializeGoogleIdentity =>
          /\ googleAuth.initializationPromise = "pending" =>
               /\ googleAuth'.attempts = googleAuth.attempts
               /\ googleAuth'.scripts = googleAuth.scripts
               /\ googleAuth'.initializationPromise = "pending"
               /\ googleAuth'.waiting = googleAuth.waiting + 1
          /\ googleAuth.isInitialized =>
               googleAuth' = [googleAuth EXCEPT !.note = "returned"]
          /\ googleAuth.note = "rejected" =>
               /\ googleAuth'.attempts = googleAuth.attempts + 1
               /\ googleAuth'.initializationPromise # "null"]_vars

\* a second initialization has been started after the first had failed, and
\* another caller shares it
C21_Witness ==
  /\ googleAuth.attempts = 2
  /\ googleAuth.initializationPromise = "pending"
  /\ googleAuth.waiting = 1
  /\ googleAuth.scripts = 1
  /\ ~googleAuth.isInitialized

====
